---- MODULE Spec2Model ----
(***************************************************************************)
(* A model of the attention notebooks of pytorch-lightning-deep-learning:  *)
(* PositionEncoding, Attention, EncoderBlock, DecoderBlock, Transformer    *)
(* (src/Transformer.ipynb), DecoderOnlyTransformer                         *)
(* (src/DecoderOnlyTrans.ipynb) and EncoderOnlyTransformer                 *)
(* (src/EncoderOnlyTrans.ipynb).                                           *)
(*                                                                         *)
(* Tensors are symbolic.  A tensor of shape [n, w] is a record             *)
(*   [err |-> "", w |-> w, v |-> <<row_1, ..., row_n>>]                    *)
(* whose rows are terms: a row term names the expression that computes the *)
(* row from the token ids, the positional table and the parameters, e.g.   *)
(* <<"add", <<"we", p, 3>>, peRow>>.  Two rows with the same term hold the *)
(* same numbers.  A raised exception is a record with err # "".            *)
(* Score matrices and masks are sequences of sequences of scalars.         *)
(***************************************************************************)
EXTENDS Integers, Sequences, FiniteSets, TLC

\* ------------------------------------------------------------------ bounds
\* max_len of a constructed module ranges over 1..MaxLenBound
MaxLenBound == 2
\* d_model of a constructed module ranges over 1..MaxDModel
MaxDModel == 3
\* vocabulary size of the classifier, the decoder-only model and the target side
NumTokens == 2
\* vocabulary size of the transducer's source side
NumTokensSrc == 1
\* optimizer updates a behaviour may take
MaxUpdates == 1
\* examples in a batch the data loader delivers
MaxBatch == 2

\* sequence lengths the callers try: one more than the largest max_len
MaxSeqLen == MaxLenBound + 1

Min(a, b) == IF a < b THEN a ELSE b

\* every sequence over S of length lo..hi
SeqsOf(S, lo, hi) == UNION {[1..n -> S] : n \in lo..hi}

\* the ids a caller tries on a table of num entries: the first and the last id of
\* the table, and the first id past its end
Tokens(num) == {0, num - 1, num}

\* token ids a caller may pass to a model built with max_len L
IdsFor(num, L) == SeqsOf(Tokens(num), 1, L + 1)

\* the rows of a training dataset: ids of the vocabulary, at most L of them
Dataset(num, L) == SeqsOf({0, num - 1}, 1, L)

\* the batch DataLoader stacks from B examples of one length: the example `row`
\* and B - 1 further examples, taken here to be rows of the id 0
PadRow(n) == [j \in 1..n |-> 0]
Stack(row, B) == <<row>> \o [b \in 1..(B - 1) |-> PadRow(Len(row))]

\* the class labels of a batch of B examples for the classifier: one id each
ClassLabels(c, B) == <<c>> \o [b \in 1..(B - 1) |-> 0]

\* the devices a notebook's `device` expression can give
Devices == {"cpu", "mps"}

\* the notebooks whose model code reads `device`
DevicesOf(k) == IF k \in {"EncoderOnlyTransformer", "DecoderOnlyTransformer"}
                THEN Devices ELSE {"cpu"}

VARIABLES
  kind,        \* the class the notebook has constructed ("" before construction)
  d_model,     \* constructor argument d_model
  max_len,     \* constructor argument max_len
  pe,          \* PositionEncoding's registered buffer "pe": max_len rows
  mask,        \* Attention's registered buffer "mask" of DecoderBlock.decoder_attention
  version,     \* the value of the trainable parameters: the number of optimizer updates
  pc,          \* the statement forward is at; "new", "idle", "done", "raised"
  mode,        \* "eval": a direct call of the model; "fit": a call made by training_step
  args,        \* the arguments of the call in flight
  locals,      \* the local variables of the block's forward that is running
  caller,      \* the local variables of Transformer.forward around a block's forward
  att,         \* the intermediates of the last Attention.forward
  trace,       \* the stages the call in flight has run, in order
  out,         \* what the last call returned
  err,         \* the exception the last call raised ("" when none)
  batch,       \* the batch training_step was given (<<>> outside a training step)
  loss,        \* what training_step computed from outputs and labels (<<>>: not yet)
  device,      \* the notebook's global `device`, bound when the classes were defined
  model_device \* the device the model's parameters and buffers are on

vars == <<kind, d_model, max_len, pe, mask, version, pc, mode, args, locals,
          caller, att, trace, out, err, batch, loss, device, model_device>>

\* ----------------------------------------------------------------- tensors
Ok(w, v) == [err |-> "", w |-> w, v |-> v]
Fail(e) == [err |-> e, w |-> 0, v |-> <<>>]
NoTensor == Ok(0, <<>>)
Rows(t) == Len(t.v)
None == <<>>

\* the size two sizes broadcast to, -1 when they do not broadcast
Bc(m, n) == IF m = n THEN m ELSE IF m = 1 THEN n ELSE IF n = 1 THEN m ELSE -1
\* the index a broadcast dimension of size m reads at position i
Idx(i, m) == IF m = 1 THEN 1 ELSE i

\* a trainable parameter's value: its name and the number of updates it has had
P(name) == <<name, version>>

\* a + b on two [n, w] tensors, with torch's broadcasting
AddT(a, b) ==
  IF a.err # "" THEN a
  ELSE IF b.err # "" THEN b
  ELSE IF Bc(Rows(a), Rows(b)) = -1 \/ Bc(a.w, b.w) = -1 THEN Fail("RuntimeError")
  ELSE Ok(Bc(a.w, b.w),
          [i \in 1..Bc(Rows(a), Rows(b)) |->
             <<"add", a.v[Idx(i, Rows(a))], b.v[Idx(i, Rows(b))]>>])

\* a lookup that does not check its ids against the table: what C6 rules out
Embedding_Unchecked(name, num, ids) ==
  Ok(d_model, [i \in 1..Len(ids) |-> <<"we", P(name), ids[i]>>])

\* nn.Embedding(num, d_model) looked up with ids
Embedding(name, num, ids) ==
  IF \E i \in 1..Len(ids) : ids[i] \notin 0..(num - 1) THEN Fail("IndexError")
  ELSE Ok(d_model, [i \in 1..Len(ids) |-> <<"we", P(name), ids[i]>>])

\* nn.Linear(in_features, out_features) applied to every row
Linear(name, in_features, out_features, x) ==
  IF x.err # "" THEN x
  ELSE IF x.w # in_features THEN Fail("RuntimeError")
  ELSE Ok(out_features, [i \in 1..Rows(x) |-> <<"lin", P(name), x.v[i]>>])

\* nn.LayerNorm(normalized_shape = d_model) applied to every row
LayerNorm(name, x) ==
  IF x.err # "" THEN x
  ELSE IF x.w # d_model THEN Fail("RuntimeError")
  ELSE Ok(x.w, [i \in 1..Rows(x) |-> <<"ln", P(name), x.v[i]>>])

\* -------------------------------------------------------- PositionEncoding
\* the entry sin(pos / 10000^(i2 / d)) resp. cos(...); sin 0 = 0 and cos 0 = 1
SinEntry(pos, i2, d) == IF pos = 0 THEN <<"num", 0, 0, 0>> ELSE <<"sin", pos, i2, d>>
CosEntry(pos, i2, d) == IF pos = 0 THEN <<"num", 1, 0, 0>> ELSE <<"cos", pos, i2, d>>

\* PositionEncoding.__init__: the table, or <<>> with ok = FALSE when the
\* assignment pe[:, 1::2] = cos(...) cannot broadcast (value of ceil(d/2) columns
\* into a slice of floor(d/2) columns)
PositionEncoding_init(d, L) ==
  LET nEven == (d + 1) \div 2
      nOdd == d \div 2
      fits == Bc(nEven, nOdd) = nOdd
  IN  IF ~fits THEN [ok |-> FALSE, pe |-> <<>>]
      ELSE [ok |-> TRUE,
            pe |-> [r \in 1..L |->
                     [c \in 1..d |->
                        IF c % 2 = 1 THEN SinEntry(r - 1, c - 1, d)
                        ELSE CosEntry(r - 1, c - 2, d)]]]

\* the forward that slices the last rows of the table, self.pe[-n:, :], instead
\* of the first: what C18 rules out
PositionEncoding_forward_LastRows(word_embeddings) ==
  AddT(word_embeddings,
       Ok(d_model, SubSeq(pe, Len(pe) - Min(Rows(word_embeddings), Len(pe)) + 1,
                          Len(pe))))

\* PositionEncoding.forward: word_embeddings + self.pe[:word_embeddings.size(0), :]
PositionEncoding_forward(word_embeddings) ==
  AddT(word_embeddings,
       Ok(d_model, SubSeq(pe, 1, Min(Rows(word_embeddings), Len(pe)))))

\* --------------------------------------------------------------- Attention
\* torch.tril(torch.ones(n, n)) == 0
Ones(n, m) == [i \in 1..n |-> [j \in 1..m |-> 1]]
\* tril with diagonal = -1, which zeroes the main diagonal too: what C3 rules out
Tril_Strict(M) == [i \in 1..Len(M) |-> [j \in 1..Len(M[i]) |-> IF j < i THEN M[i][j] ELSE 0]]
Tril(M) == [i \in 1..Len(M) |-> [j \in 1..Len(M[i]) |-> IF j <= i THEN M[i][j] ELSE 0]]
\* the comparison != 0 in place of == 0, which hides the diagonal and the past:
\* what C29 rules out
EqZero_Inverted(M) == [i \in 1..Len(M) |-> [j \in 1..Len(M[i]) |-> M[i][j] # 0]]
EqZero(M) == [i \in 1..Len(M) |-> [j \in 1..Len(M[i]) |-> M[i][j] = 0]]
\* the mask of triu in place of tril, which hides the past and shows the future:
\* what C2 rules out
CausalMask_Lower(n) == [i \in 1..n |-> [j \in 1..n |-> j < i]]
CausalMask(n) == EqZero(Tril(Ones(n, n)))

\* the number of columns of a matrix with at least one row
Cols(M) == Len(M[1])

\* torch.matmul(q, k.transpose(0, 1)) / sqrt(k.size(1)): the score of query row i
\* against key row j is named <<i, j>>; its divisor is kept beside the matrix
\* the scores of matmul(k, q.transpose(0, 1)), keys against queries: what C14
\* rules out
Sims_Transposed(q, k) == [i \in 1..Rows(k) |-> [j \in 1..Rows(q) |-> <<j, i>>]]
Sims(q, k) == [i \in 1..Rows(q) |-> [j \in 1..Rows(k) |-> <<i, j>>]]

\* the sentinel -1e9
NEG == <<0, 0>>

\* masked_fill with the mask negated, which overwrites the scores the mask shows:
\* what C16 rules out
MaskedFill_Inverted(s, m) ==
  LET R == Bc(Len(s), Len(m))
      C == Bc(Cols(s), Cols(m))
  IN  IF R = -1 \/ C = -1 THEN [ok |-> FALSE, m |-> <<>>]
      ELSE [ok |-> TRUE,
            m |-> [r \in 1..R |-> [c \in 1..C |->
                     IF ~m[Idx(r, Len(m))][Idx(c, Cols(m))] THEN NEG
                     ELSE s[Idx(r, Len(s))][Idx(c, Cols(s))]]]]

\* scaled_sims.masked_fill(mask = m, value = -1e9): out of place, so the scores
\* and the mask are both expanded to their common broadcast shape
MaskedFill(s, m) ==
  LET R == Bc(Len(s), Len(m))
      C == Bc(Cols(s), Cols(m))
  IN  IF R = -1 \/ C = -1 THEN [ok |-> FALSE, m |-> <<>>]
      ELSE [ok |-> TRUE,
            m |-> [r \in 1..R |-> [c \in 1..C |->
                     IF m[Idx(r, Len(m))][Idx(c, Cols(m))] THEN NEG
                     ELSE s[Idx(r, Len(s))][Idx(c, Cols(s))]]]]

\* the columns of a score row that get a non-zero weight: exp(-1e9 - max) is 0
\* unless every score of the row is the sentinel
Support(row) ==
  IF \A c \in 1..Len(row) : row[c] = NEG THEN 1..Len(row)
  ELSE {c \in 1..Len(row) : row[c] # NEG}

\* the weight 0
ZERO == [num |-> NEG, den |-> {}]

\* F.softmax(scaled_sims, dim = 1): the weight at (r, c) is exp(num) over the sum
\* of exp over the row's columns den
Softmax(s) ==
  [r \in 1..Len(s) |-> [c \in 1..Cols(s) |->
     IF c \in Support(s[r]) THEN [num |-> s[r][c], den |-> Support(s[r])] ELSE ZERO]]

\* the indices 1..n in order
Iota(n) == [i \in 1..n |-> i]

\* torch.matmul(attention_percents, v): row r is the weighted sum of the rows of v
\* with a non-zero weight; the weights are functions of the query and key rows
\* their scores were computed from
WeightedSum(name, scale, ap, q, k, v) ==
  [r \in 1..Len(ap) |->
     LET nz == SelectSeq(Iota(Cols(ap)), LAMBDA c : ap[r][c] # ZERO)
         scored == SelectSeq(nz, LAMBDA c : ap[r][c].num # NEG)
     IN  <<"attn", P(name), scale,
           IF scored = <<>> THEN <<>> ELSE q.v[ap[r][scored[1]].num[1]],
           [i \in 1..Len(scored) |-> k.v[ap[r][scored[i]].num[2]]],
           [i \in 1..Len(nz) |-> v.v[nz[i]]]>>]

\* attention that takes the softmax of the unmasked scores and then zeroes the
\* weights the mask hides, without normalizing again: what C15 rules out
Attention_forward_MaskAfterSoftmax(name, encodings_for_q, encodings_for_k, encodings_for_v, m) ==
  LET q == Linear(name \o ".W_q", d_model, d_model, encodings_for_q)
      k == Linear(name \o ".W_k", d_model, d_model, encodings_for_k)
      v == Linear(name \o ".W_v", d_model, d_model, encodings_for_v)
      bad(e) == [err |-> e, w |-> 0, v |-> <<>>, mask |-> m, scale |-> 0,
                 scaled_sims |-> <<>>, attention_percents |-> <<>>]
  IN  IF q.err # "" THEN bad(q.err)
      ELSE IF k.err # "" THEN bad(k.err)
      ELSE IF v.err # "" THEN bad(v.err)
      ELSE IF q.w # k.w THEN bad("RuntimeError")
      ELSE
        LET scaled_sims == Sims(q, k)
            sm == Softmax(scaled_sims)
            R == IF m = None THEN Len(sm) ELSE Bc(Len(sm), Len(m))
            C == IF m = None THEN Cols(sm) ELSE Bc(Cols(sm), Cols(m))
        IN  IF R = -1 \/ C = -1 THEN bad("RuntimeError")
            ELSE
              LET attention_percents ==
                    [r \in 1..R |-> [c \in 1..C |->
                       IF m # None /\ m[Idx(r, Len(m))][Idx(c, Cols(m))] THEN ZERO
                       ELSE sm[Idx(r, Len(sm))][Idx(c, Cols(sm))]]]
              IN  IF Cols(attention_percents) # Rows(v)
                  THEN [bad("RuntimeError") EXCEPT !.scale = k.w,
                                                   !.scaled_sims = scaled_sims,
                                                   !.attention_percents = attention_percents]
                  ELSE [err |-> "", w |-> v.w,
                        v |-> WeightedSum(name, k.w, attention_percents, q, k, v),
                        mask |-> m, scale |-> k.w,
                        scaled_sims |-> scaled_sims,
                        attention_percents |-> attention_percents]

\* attention that divides by the square root of k.size(0), the number of keys,
\* instead of k.size(1): what C25 rules out
Attention_forward_ScaleByRows(name, encodings_for_q, encodings_for_k, encodings_for_v, m) ==
  LET q == Linear(name \o ".W_q", d_model, d_model, encodings_for_q)
      k == Linear(name \o ".W_k", d_model, d_model, encodings_for_k)
      v == Linear(name \o ".W_v", d_model, d_model, encodings_for_v)
      bad(e) == [err |-> e, w |-> 0, v |-> <<>>, mask |-> m, scale |-> 0,
                 scaled_sims |-> <<>>, attention_percents |-> <<>>]
  IN  IF q.err # "" THEN bad(q.err)
      ELSE IF k.err # "" THEN bad(k.err)
      ELSE IF v.err # "" THEN bad(v.err)
      ELSE IF q.w # k.w THEN bad("RuntimeError")
      ELSE
        LET sims == Sims(q, k)
            filled == IF m = None THEN [ok |-> TRUE, m |-> sims] ELSE MaskedFill(sims, m)
        IN  IF ~filled.ok THEN bad("RuntimeError")
            ELSE
              LET scaled_sims == filled.m
                  attention_percents == Softmax(scaled_sims)
              IN  IF Cols(attention_percents) # Rows(v)
                  THEN [bad("RuntimeError") EXCEPT !.scale = Rows(k),
                                                   !.scaled_sims = scaled_sims,
                                                   !.attention_percents = attention_percents]
                  ELSE [err |-> "", w |-> v.w,
                        v |-> WeightedSum(name, Rows(k), attention_percents, q, k, v),
                        mask |-> m, scale |-> Rows(k),
                        scaled_sims |-> scaled_sims,
                        attention_percents |-> attention_percents]

\* Attention.forward(encodings_for_q, encodings_for_k, encodings_for_v) with the
\* mask m (None: no masking).  Returns the tensor with the intermediates.
Attention_forward(name, encodings_for_q, encodings_for_k, encodings_for_v, m) ==
  LET q == Linear(name \o ".W_q", d_model, d_model, encodings_for_q)
      k == Linear(name \o ".W_k", d_model, d_model, encodings_for_k)
      v == Linear(name \o ".W_v", d_model, d_model, encodings_for_v)
      bad(e) == [err |-> e, w |-> 0, v |-> <<>>, mask |-> m, scale |-> 0,
                 scaled_sims |-> <<>>, attention_percents |-> <<>>]
  IN  IF q.err # "" THEN bad(q.err)
      ELSE IF k.err # "" THEN bad(k.err)
      ELSE IF v.err # "" THEN bad(v.err)
      ELSE IF q.w # k.w THEN bad("RuntimeError")
      ELSE
        LET sims == Sims(q, k)
            filled == IF m = None THEN [ok |-> TRUE, m |-> sims] ELSE MaskedFill(sims, m)
        IN  IF ~filled.ok THEN bad("RuntimeError")
            ELSE
              LET scaled_sims == filled.m
                  attention_percents == Softmax(scaled_sims)
              IN  IF Cols(attention_percents) # Rows(v)
                  THEN [bad("RuntimeError") EXCEPT !.scale = k.w,
                                                   !.scaled_sims = scaled_sims,
                                                   !.attention_percents = attention_percents]
                  ELSE [err |-> "", w |-> v.w,
                        v |-> WeightedSum(name, k.w, attention_percents, q, k, v),
                        mask |-> m, scale |-> k.w,
                        scaled_sims |-> scaled_sims,
                        attention_percents |-> attention_percents]

\* the tensor part of what Attention_forward returns
TensorOf(a) == [err |-> a.err, w |-> a.w, v |-> a.v]
NoAttention == [mask |-> None, scale |-> 0, scaled_sims |-> <<>>, attention_percents |-> <<>>]
\* no loss computed yet
NoLoss == [err |-> "", terms |-> <<>>]
InternalsOf(a) == [mask |-> a.mask, scale |-> a.scale, scaled_sims |-> a.scaled_sims,
                   attention_percents |-> a.attention_percents]

\* attention that moves the mask to the device of the scores, whatever the
\* global device is: what C30 rules out
Attention_forward_FollowsScores(name, encodings_for_q, encodings_for_k, encodings_for_v, m) ==
  Attention_forward(name, encodings_for_q, encodings_for_k, encodings_for_v, m)

\* what masked_fill makes of the mask m moved to `device`: the attention a as
\* computed when mask and scores are on one device (or there is no mask), and
\* RuntimeError in place of the unmasked attention a when they are not, unless
\* a failed before it had scores
MaskMoved(a, m) ==
  IF m = None \/ device = model_device THEN a
  ELSE IF a.err # "" /\ a.scale = 0 THEN [a EXCEPT !.mask = m]
  ELSE [err |-> "RuntimeError", w |-> 0, v |-> <<>>, mask |-> m, scale |-> 0,
        scaled_sims |-> <<>>, attention_percents |-> <<>>]

\* Attention.forward(..., mask = None, device = device) of the encoder-only and
\* decoder-only notebooks: a mask is moved with mask.to(device) to the device
\* bound as the default argument, and masked_fill raises when the scores, which
\* are where the model is, are on another device.  Without a mask, `device` is
\* not read.
Attention_forward_device(name, encodings_for_q, encodings_for_k, encodings_for_v, m) ==
  MaskMoved(Attention_forward(name, encodings_for_q, encodings_for_k, encodings_for_v,
                              IF device = model_device THEN m ELSE None), m)

\* ---------------------------------------------------- the blocks' forwards
\* Each forward is given as the record of its local variables, one field per
\* assignment of the code, each computed from the earlier ones as the code does.
\* A local whose statement raises is a tensor with err # "", and so is every
\* local computed from it.

\* the classes of the encoder-only classifier's head
NumClasses == 2

\* a head that keeps every row instead of the first: what C23 rules out
FirstRow_AllRows(x) == x

\* the single row x[0].unsqueeze(dim = 0)
FirstRow(x) == IF x.err # "" THEN x ELSE Ok(x.w, <<x.v[1]>>)

\* the classifier with the residual taken from the word embeddings, as the encoder
\* block takes it: what C10 rules out
EncoderOnlyTransformer_forward_WeResidual(token_ids) ==
  LET word_embeddings == Embedding("we", NumTokens, token_ids)
      position_encoded == PositionEncoding_forward(word_embeddings)
      attention == Attention_forward("attention", position_encoded,
                                          position_encoded, position_encoded, None)
      self_attention_values == TensorOf(attention)
      residual_connection_values == AddT(word_embeddings, self_attention_values)
      fc_layer_out == Linear("cls", d_model, NumClasses,
                             FirstRow(residual_connection_values))
  IN  [word_embeddings |-> word_embeddings,
       position_encoded |-> position_encoded,
       attention |-> attention,
       self_attention_values |-> self_attention_values,
       residual_connection_values |-> residual_connection_values,
       fc_layer_out |-> fc_layer_out]

\* EncoderOnlyTransformer.forward(token_ids)
EncoderOnlyTransformer_forward(token_ids) ==
  LET word_embeddings == Embedding("we", NumTokens, token_ids)
      position_encoded == PositionEncoding_forward(word_embeddings)
      attention == Attention_forward_device("attention", position_encoded,
                                                 position_encoded, position_encoded, None)
      self_attention_values == TensorOf(attention)
      residual_connection_values == AddT(position_encoded, self_attention_values)
      fc_layer_out == Linear("cls", d_model, NumClasses,
                             FirstRow(residual_connection_values))
  IN  [word_embeddings |-> word_embeddings,
       position_encoded |-> position_encoded,
       attention |-> attention,
       self_attention_values |-> self_attention_values,
       residual_connection_values |-> residual_connection_values,
       fc_layer_out |-> fc_layer_out]

\* the decoder-only model with the residual taken from the word embeddings, as
\* the decoder block takes it: what C11 rules out
DecoderOnlyTransformer_forward_WeResidual(token_ids) ==
  LET word_embeddings == Embedding("we", NumTokens, token_ids)
      position_encoded == PositionEncoding_forward(word_embeddings)
      m == CausalMask(Len(token_ids))
      attention == Attention_forward("attention", position_encoded,
                                          position_encoded, position_encoded, m)
      self_attention_values == TensorOf(attention)
      residual_connection_values == AddT(word_embeddings, self_attention_values)
      fc_layer_out == Linear("fc", d_model, NumTokens, residual_connection_values)
  IN  [word_embeddings |-> word_embeddings,
       position_encoded |-> position_encoded,
       mask |-> m,
       attention |-> attention,
       self_attention_values |-> self_attention_values,
       residual_connection_values |-> residual_connection_values,
       fc_layer_out |-> fc_layer_out]

\* DecoderOnlyTransformer.forward(token_ids)
DecoderOnlyTransformer_forward(token_ids) ==
  LET word_embeddings == Embedding("we", NumTokens, token_ids)
      position_encoded == PositionEncoding_forward(word_embeddings)
      m == CausalMask(Len(token_ids))
      attention == Attention_forward_device("attention", position_encoded,
                                                 position_encoded, position_encoded, m)
      self_attention_values == TensorOf(attention)
      residual_connection_values == AddT(position_encoded, self_attention_values)
      fc_layer_out == Linear("fc", d_model, NumTokens, residual_connection_values)
  IN  [word_embeddings |-> word_embeddings,
       position_encoded |-> position_encoded,
       mask |-> m,
       attention |-> attention,
       self_attention_values |-> self_attention_values,
       residual_connection_values |-> residual_connection_values,
       fc_layer_out |-> fc_layer_out]

\* the encoder block with the first residual taken from the position-encoded
\* rows, as the classifier takes it: what C7 rules out
EncoderBlock_forward_PosResidual(x) ==
  LET word_embeddings == Embedding("encoder_block.we", NumTokensSrc, x)
      position_encoded == PositionEncoding_forward(word_embeddings)
      attention == Attention_forward("encoder_block.attention", position_encoded,
                                          position_encoded, position_encoded, None)
      attention_values == TensorOf(attention)
      normalized_attention_values ==
        LayerNorm("encoder_block.layer_norm1", AddT(attention_values, position_encoded))
      linear_out == Linear("encoder_block.linear_layer", d_model, d_model,
                           normalized_attention_values)
      ret == LayerNorm("encoder_block.layer_norm2",
                       AddT(linear_out, normalized_attention_values))
  IN  [word_embeddings |-> word_embeddings,
       position_encoded |-> position_encoded,
       attention |-> attention,
       attention_values |-> attention_values,
       normalized_attention_values |-> normalized_attention_values,
       linear_out |-> linear_out,
       ret |-> ret]

\* EncoderBlock.forward(x)
EncoderBlock_forward(x) ==
  LET word_embeddings == Embedding("encoder_block.we", NumTokensSrc, x)
      position_encoded == PositionEncoding_forward(word_embeddings)
      attention == Attention_forward("encoder_block.attention", position_encoded,
                                          position_encoded, position_encoded, None)
      attention_values == TensorOf(attention)
      normalized_attention_values ==
        LayerNorm("encoder_block.layer_norm1", AddT(attention_values, word_embeddings))
      linear_out == Linear("encoder_block.linear_layer", d_model, d_model,
                           normalized_attention_values)
      ret == LayerNorm("encoder_block.layer_norm2",
                       AddT(linear_out, normalized_attention_values))
  IN  [word_embeddings |-> word_embeddings,
       position_encoded |-> position_encoded,
       attention |-> attention,
       attention_values |-> attention_values,
       normalized_attention_values |-> normalized_attention_values,
       linear_out |-> linear_out,
       ret |-> ret]

\* the decoder block whose second attention attends over the decoder's own rows
\* instead of the encoder's: what C8 rules out
DecoderBlock_forward_SelfCross(x, encoder_embeddings) ==
  LET word_embeddings == Embedding("decoder_block.we", NumTokens, x)
      decoder_positional_embeddings == PositionEncoding_forward(word_embeddings)
      decoder_attention ==
        Attention_forward("decoder_block.decoder_attention",
                               decoder_positional_embeddings,
                               decoder_positional_embeddings,
                               decoder_positional_embeddings, mask)
      decoder_attention_values == TensorOf(decoder_attention)
      normalized_decoder_attention_values ==
        LayerNorm("decoder_block.layer_norm1",
                  AddT(decoder_attention_values, word_embeddings))
      cross_attention ==
        Attention_forward("decoder_block.encoder_decoder_attention",
                               normalized_decoder_attention_values,
                               normalized_decoder_attention_values,
                               normalized_decoder_attention_values, None)
      cross_attention_values == TensorOf(cross_attention)
      normalized_cross_attention_values ==
        LayerNorm("decoder_block.layer_norm2",
                  AddT(cross_attention_values, normalized_decoder_attention_values))
      linear_out == Linear("decoder_block.linear_layer", d_model, d_model,
                           normalized_cross_attention_values)
      ret == LayerNorm("decoder_block.layer_norm3",
                       AddT(linear_out, normalized_cross_attention_values))
  IN  [word_embeddings |-> word_embeddings,
       decoder_positional_embeddings |-> decoder_positional_embeddings,
       decoder_attention |-> decoder_attention,
       decoder_attention_values |-> decoder_attention_values,
       normalized_decoder_attention_values |-> normalized_decoder_attention_values,
       cross_attention |-> cross_attention,
       cross_attention_values |-> cross_attention_values,
       normalized_cross_attention_values |-> normalized_cross_attention_values,
       linear_out |-> linear_out,
       ret |-> ret]

\* the decoder block of the workflow text, with an MLP block (linear layer, add &
\* norm) after the masked attention as well: what C9 rules out
DecoderBlock_forward_TwoMlp(x, encoder_embeddings) ==
  LET word_embeddings == Embedding("decoder_block.we", NumTokens, x)
      decoder_positional_embeddings == PositionEncoding_forward(word_embeddings)
      decoder_attention ==
        Attention_forward("decoder_block.decoder_attention",
                               decoder_positional_embeddings,
                               decoder_positional_embeddings,
                               decoder_positional_embeddings, mask)
      decoder_attention_values == TensorOf(decoder_attention)
      normalized_decoder_attention_values ==
        LayerNorm("decoder_block.layer_norm1",
                  AddT(Linear("decoder_block.linear_layer", d_model, d_model,
                              decoder_attention_values),
                       decoder_attention_values))
      cross_attention ==
        Attention_forward("decoder_block.encoder_decoder_attention",
                               normalized_decoder_attention_values,
                               encoder_embeddings, encoder_embeddings, None)
      cross_attention_values == TensorOf(cross_attention)
      normalized_cross_attention_values ==
        LayerNorm("decoder_block.layer_norm2",
                  AddT(cross_attention_values, normalized_decoder_attention_values))
      linear_out == Linear("decoder_block.linear_layer", d_model, d_model,
                           normalized_cross_attention_values)
      ret == LayerNorm("decoder_block.layer_norm3",
                       AddT(linear_out, normalized_cross_attention_values))
  IN  [word_embeddings |-> word_embeddings,
       decoder_positional_embeddings |-> decoder_positional_embeddings,
       decoder_attention |-> decoder_attention,
       decoder_attention_values |-> decoder_attention_values,
       normalized_decoder_attention_values |-> normalized_decoder_attention_values,
       cross_attention |-> cross_attention,
       cross_attention_values |-> cross_attention_values,
       normalized_cross_attention_values |-> normalized_cross_attention_values,
       linear_out |-> linear_out,
       ret |-> ret]

\* DecoderBlock.forward(x, encoder_embeddings)
DecoderBlock_forward(x, encoder_embeddings) ==
  LET word_embeddings == Embedding("decoder_block.we", NumTokens, x)
      decoder_positional_embeddings == PositionEncoding_forward(word_embeddings)
      decoder_attention ==
        Attention_forward("decoder_block.decoder_attention",
                               decoder_positional_embeddings,
                               decoder_positional_embeddings,
                               decoder_positional_embeddings, mask)
      decoder_attention_values == TensorOf(decoder_attention)
      normalized_decoder_attention_values ==
        LayerNorm("decoder_block.layer_norm1",
                  AddT(decoder_attention_values, word_embeddings))
      cross_attention ==
        Attention_forward("decoder_block.encoder_decoder_attention",
                               normalized_decoder_attention_values,
                               encoder_embeddings, encoder_embeddings, None)
      cross_attention_values == TensorOf(cross_attention)
      normalized_cross_attention_values ==
        LayerNorm("decoder_block.layer_norm2",
                  AddT(cross_attention_values, normalized_decoder_attention_values))
      linear_out == Linear("decoder_block.linear_layer", d_model, d_model,
                           normalized_cross_attention_values)
      ret == LayerNorm("decoder_block.layer_norm3",
                       AddT(linear_out, normalized_cross_attention_values))
  IN  [word_embeddings |-> word_embeddings,
       decoder_positional_embeddings |-> decoder_positional_embeddings,
       decoder_attention |-> decoder_attention,
       decoder_attention_values |-> decoder_attention_values,
       normalized_decoder_attention_values |-> normalized_decoder_attention_values,
       cross_attention |-> cross_attention,
       cross_attention_values |-> cross_attention_values,
       normalized_cross_attention_values |-> normalized_cross_attention_values,
       linear_out |-> linear_out,
       ret |-> ret]

\* Transformer.forward(x_src, x_target)
Transformer_forward(x_src, x_target) ==
  LET encoder_embeddings == EncoderBlock_forward(x_src).ret
      decoder_embeddings == DecoderBlock_forward(x_target, encoder_embeddings).ret
  IN  [encoder_embeddings |-> encoder_embeddings,
       decoder_embeddings |-> decoder_embeddings,
       ret |-> Linear("linear_layer", d_model, NumTokens, decoder_embeddings)]

\* ------------------------------------------------------------ construction
Init ==
  /\ kind = ""
  /\ d_model = 0
  /\ max_len = 0
  /\ pe = <<>>
  /\ mask = None
  /\ version = 0
  /\ pc = "new"
  /\ mode = "eval"
  /\ args = <<>>
  /\ locals = <<>>
  /\ caller = <<>>
  /\ att = NoAttention
  /\ trace = <<>>
  /\ out = NoTensor
  /\ err = ""
  /\ batch = <<>>
  /\ loss = NoLoss
  /\ device = "cpu"
  /\ model_device = "cpu"

\* a frame with the local name bound to val
Put(f, name, val) == [k \in DOMAIN f \cup {name} |-> IF k = name THEN val ELSE f[k]]

\* the constructor of class k with a PositionEncoding(d, L) inside; the decoder
\* block of the Transformer registers its mask, built from max_len
Construct(k, d, L, dev) ==
  /\ pc = "new"
  /\ LET p == PositionEncoding_init(d, L)
     IN  IF p.ok
         THEN /\ kind' = k
              /\ d_model' = d
              /\ max_len' = L
              /\ pe' = p.pe
              /\ mask' = IF k = "Transformer" THEN CausalMask(L) ELSE None
              /\ device' = dev
              /\ pc' = "idle"
              /\ UNCHANGED err
         ELSE /\ pc' = "failed"
              /\ err' = "RuntimeError"
              /\ UNCHANGED <<kind, d_model, max_len, pe, mask, device>>
  /\ UNCHANGED <<version, mode, args, locals, caller, att, trace, out, batch, loss,
                 model_device>>

\* Attention(d_model = d) on its own: no positional table
Construct_Attention(d) ==
  /\ pc = "new"
  /\ kind' = "Attention"
  /\ d_model' = d
  /\ pc' = "idle"
  /\ UNCHANGED <<max_len, pe, mask, version, mode, args, locals, caller, att, trace,
                 out, err, batch, loss, device, model_device>>

\* ------------------------------------------------------------------- calls
\* a call starts: a direct call (m = "eval", b = <<>>), or the call training_step
\* makes on the batch b the trainer delivered (m = "fit").  trainer.fit with
\* accelerator = "auto" has the model on the accelerator while it trains.
Enter(k, first, m, a, b) ==
  /\ pc = "idle"
  /\ kind = k
  /\ pc' = first
  /\ mode' = m
  /\ args' = a
  /\ batch' = b
  /\ model_device' = IF m = "fit" THEN device ELSE model_device
  /\ UNCHANGED <<kind, d_model, max_len, pe, mask, version, locals, caller, att,
                 trace, out, err, loss, device>>

\* a module that keeps the attention weights of its last call in an attribute,
\* so that they outlive the call: what C20 rules out
Finish_CachesAttention ==
  /\ \/ pc = "done" /\ mode = "eval"
     \/ pc = "raised"
  /\ pc' = "idle"
  /\ mode' = "eval"
  /\ args' = <<>>
  /\ locals' = <<>>
  /\ caller' = <<>>
  /\ trace' = <<>>
  /\ out' = NoTensor
  /\ err' = ""
  /\ batch' = <<>>
  /\ loss' = NoLoss
  /\ model_device' = IF mode = "fit" THEN "cpu" ELSE model_device
  /\ UNCHANGED <<kind, d_model, max_len, pe, mask, version, att, device>>

\* the caller is done with what an eval call returned, or with the exception a
\* call raised (which ends trainer.fit when training_step made the call): the
\* frames, the result and the exception are gone, and a trainer that stops
\* leaves the model on the cpu
Finish ==
  /\ \/ pc = "done" /\ mode = "eval"
     \/ pc = "raised"
  /\ pc' = "idle"
  /\ mode' = "eval"
  /\ args' = <<>>
  /\ locals' = <<>>
  /\ caller' = <<>>
  /\ att' = NoAttention
  /\ trace' = <<>>
  /\ out' = NoTensor
  /\ err' = ""
  /\ batch' = <<>>
  /\ loss' = NoLoss
  /\ model_device' = IF mode = "fit" THEN "cpu" ELSE model_device
  /\ UNCHANGED <<kind, d_model, max_len, pe, mask, version, device>>

\* the statement at label `at` assigns val to the local `name` and goes on to
\* `next`, or raises val's exception
Assign(at, next, name, val) ==
  /\ pc = at
  /\ trace' = Append(trace, at)
  /\ IF val.err # ""
     THEN /\ pc' = "raised"
          /\ err' = val.err
          /\ UNCHANGED locals
     ELSE /\ pc' = next
          /\ locals' = Put(locals, name, val)
          /\ UNCHANGED err
  /\ UNCHANGED <<kind, d_model, max_len, pe, mask, version, mode, args, caller, out,
                 batch, loss, device, model_device>>

\* a forward that updates a weight in place before it returns, as a layer with
\* running statistics would: what C19 rules out
Return_InPlace(at, val) ==
  /\ pc = at
  /\ trace' = Append(trace, at)
  /\ version' = IF version < MaxUpdates THEN version + 1 ELSE version
  /\ IF val.err # ""
     THEN /\ pc' = "raised"
          /\ err' = val.err
          /\ UNCHANGED out
     ELSE /\ pc' = "done"
          /\ out' = val
          /\ UNCHANGED err
  /\ UNCHANGED <<kind, d_model, max_len, pe, mask, mode, args, locals, caller,
                 batch, loss, device, model_device>>

\* the last statement of the outermost forward returns val, or raises
Return(at, val) ==
  /\ pc = at
  /\ trace' = Append(trace, at)
  /\ IF val.err # ""
     THEN /\ pc' = "raised"
          /\ err' = val.err
          /\ UNCHANGED out
     ELSE /\ pc' = "done"
          /\ out' = val
          /\ UNCHANGED err
  /\ UNCHANGED <<kind, d_model, max_len, pe, mask, version, mode, args, locals, caller,
                 batch, loss, device, model_device>>

\* rows the callers of a bare component pass: n rows of width d_model
Input(tag, n) == Ok(d_model, [i \in 1..n |-> <<tag, i>>])

\* PositionEncoding.forward called on its own
Call_PositionEncoding(n) ==
  /\ Enter("PositionEncoding", "PositionEncoding.forward", "eval",
           [word_embeddings |-> Input("x", n)], <<>>)

PositionEncoding_return ==
  /\ Return("PositionEncoding.forward", PositionEncoding_forward(args.word_embeddings))
  /\ UNCHANGED att

\* the masks a caller of Attention.forward passes: none, or r x c masks hiding the
\* keys after the query's position, or hiding every key
Masks ==
  {None}
  \cup {[i \in 1..r |-> [j \in 1..c |-> j > i]] : r \in 1..MaxSeqLen, c \in 1..MaxSeqLen}
  \cup {[i \in 1..r |-> [j \in 1..c |-> TRUE]] : r \in 1..MaxSeqLen, c \in 1..MaxSeqLen}

\* Attention.forward called on its own with nq query rows and nk key and value rows
Call_Attention(nq, nk, m) ==
  /\ Enter("Attention", "Attention.forward", "eval",
           [encodings_for_q |-> Input("q", nq), encodings_for_k |-> Input("k", nk),
            encodings_for_v |-> Input("v", nk), mask |-> m], <<>>)

Attention_return ==
  LET a == Attention_forward("attention", args.encodings_for_q, args.encodings_for_k,
                             args.encodings_for_v, args.mask)
  IN  /\ Return("Attention.forward", TensorOf(a))
      /\ att' = InternalsOf(a)

\* ------------------------------------------------- EncoderOnlyTransformer
EO == EncoderOnlyTransformer_forward(args.token_ids)

\* model(token_ids)
Call_EncoderOnlyTransformer(token_ids) ==
  Enter("EncoderOnlyTransformer", "EncoderOnlyTransformer.we", "eval",
        [token_ids |-> token_ids], <<>>)

\* training_step on a batch of B examples, the first of them token_ids:
\* input_tokens, labels = batch; self.forward(input_tokens[0]).  The labels
\* are first read when the loss is computed, and the model draws them there.
TrainingStep_EncoderOnlyTransformer(token_ids, B) ==
  LET input_tokens == Stack(token_ids, B)
  IN  /\ version < MaxUpdates
      /\ Enter("EncoderOnlyTransformer", "EncoderOnlyTransformer.we", "fit",
               [token_ids |-> input_tokens[1]], [input_tokens |-> input_tokens])

EncoderOnlyTransformer_we ==
  /\ Assign("EncoderOnlyTransformer.we", "EncoderOnlyTransformer.pe",
            "word_embeddings", EO.word_embeddings)
  /\ UNCHANGED att

EncoderOnlyTransformer_pe ==
  /\ Assign("EncoderOnlyTransformer.pe", "EncoderOnlyTransformer.attention",
            "position_encoded", EO.position_encoded)
  /\ UNCHANGED att

EncoderOnlyTransformer_attention ==
  /\ Assign("EncoderOnlyTransformer.attention", "EncoderOnlyTransformer.residual",
            "self_attention_values", EO.self_attention_values)
  /\ att' = InternalsOf(EO.attention)

EncoderOnlyTransformer_residual ==
  /\ Assign("EncoderOnlyTransformer.residual", "EncoderOnlyTransformer.cls",
            "residual_connection_values", EO.residual_connection_values)
  /\ UNCHANGED att

EncoderOnlyTransformer_cls ==
  /\ Return("EncoderOnlyTransformer.cls", EO.fc_layer_out)
  /\ UNCHANGED att

\* ------------------------------------------------- DecoderOnlyTransformer
DO == DecoderOnlyTransformer_forward(args.token_ids)

\* model(token_ids)
Call_DecoderOnlyTransformer(token_ids) ==
  Enter("DecoderOnlyTransformer", "DecoderOnlyTransformer.we", "eval",
        [token_ids |-> token_ids], <<>>)

\* training_step on a batch of B examples, the first of them token_ids:
\* input_tokens, labels = batch; self.forward(input_tokens[0]).  The labels
\* are first read when the loss is computed, and the model draws them there.
TrainingStep_DecoderOnlyTransformer(token_ids, B) ==
  LET input_tokens == Stack(token_ids, B)
  IN  /\ version < MaxUpdates
      /\ Enter("DecoderOnlyTransformer", "DecoderOnlyTransformer.we", "fit",
               [token_ids |-> input_tokens[1]], [input_tokens |-> input_tokens])

DecoderOnlyTransformer_we ==
  /\ Assign("DecoderOnlyTransformer.we", "DecoderOnlyTransformer.pe",
            "word_embeddings", DO.word_embeddings)
  /\ UNCHANGED att

DecoderOnlyTransformer_pe ==
  /\ Assign("DecoderOnlyTransformer.pe", "DecoderOnlyTransformer.mask",
            "position_encoded", DO.position_encoded)
  /\ UNCHANGED att

\* mask = torch.tril(torch.ones(n, n)) == 0 cannot raise
DecoderOnlyTransformer_mask ==
  /\ pc = "DecoderOnlyTransformer.mask"
  /\ trace' = Append(trace, pc)
  /\ pc' = "DecoderOnlyTransformer.attention"
  /\ locals' = Put(locals, "mask", DO.mask)
  /\ UNCHANGED <<kind, d_model, max_len, pe, mask, version, mode, args, caller, att,
                 out, err,
                 batch, loss, device, model_device>>

DecoderOnlyTransformer_attention ==
  /\ Assign("DecoderOnlyTransformer.attention", "DecoderOnlyTransformer.residual",
            "self_attention_values", DO.self_attention_values)
  /\ att' = InternalsOf(DO.attention)

DecoderOnlyTransformer_residual ==
  /\ Assign("DecoderOnlyTransformer.residual", "DecoderOnlyTransformer.fc",
            "residual_connection_values", DO.residual_connection_values)
  /\ UNCHANGED att

DecoderOnlyTransformer_fc ==
  /\ Return("DecoderOnlyTransformer.fc", DO.fc_layer_out)
  /\ UNCHANGED att

\* ------------------------------------------------------------ Transformer
\* model(x_src = ..., x_target = ...): forward enters the encoder block with
\* x_src.  x_target is first read when the decoder block is entered, and the
\* model draws it there.
Call_Transformer(x_src) ==
  Enter("Transformer", "EncoderBlock.we", "eval", [x_src |-> x_src], <<>>)

\* training_step: self.forward(x_src = input_tokens[0], x_target = labels[0])
\* on a batch of B examples, the first of them x_src with the labels the model
\* draws where forward first reads x_target
TrainingStep_Transformer(x_src, B) ==
  LET input_tokens == Stack(x_src, B)
  IN  /\ version < MaxUpdates
      /\ Enter("Transformer", "EncoderBlock.we", "fit",
               [x_src |-> input_tokens[1]], [input_tokens |-> input_tokens])

EB == EncoderBlock_forward(args.x_src)

EncoderBlock_we ==
  /\ Assign("EncoderBlock.we", "EncoderBlock.pe", "word_embeddings", EB.word_embeddings)
  /\ UNCHANGED att

EncoderBlock_pe ==
  /\ Assign("EncoderBlock.pe", "EncoderBlock.attention", "position_encoded",
            EB.position_encoded)
  /\ UNCHANGED att

EncoderBlock_attention ==
  /\ Assign("EncoderBlock.attention", "EncoderBlock.layer_norm1", "attention_values",
            EB.attention_values)
  /\ att' = InternalsOf(EB.attention)

EncoderBlock_layer_norm1 ==
  /\ Assign("EncoderBlock.layer_norm1", "EncoderBlock.linear_layer",
            "normalized_attention_values", EB.normalized_attention_values)
  /\ UNCHANGED att

EncoderBlock_linear_layer ==
  /\ Assign("EncoderBlock.linear_layer", "EncoderBlock.layer_norm2", "linear_out",
            EB.linear_out)
  /\ UNCHANGED att

\* a block's last statement returns val into the local `name` of Transformer.forward
\* and the block's frame is gone, or it raises
BlockReturn(at, next, name, val) ==
  /\ pc = at
  /\ trace' = Append(trace, at)
  /\ IF val.err # ""
     THEN /\ pc' = "raised"
          /\ err' = val.err
          /\ UNCHANGED <<locals, caller>>
     ELSE /\ pc' = next
          /\ caller' = Put(caller, name, val)
          /\ locals' = <<>>
          /\ UNCHANGED err
  /\ UNCHANGED <<kind, d_model, max_len, pe, mask, version, mode, args, att, out,
                 batch, loss, device, model_device>>

EncoderBlock_layer_norm2 ==
  BlockReturn("EncoderBlock.layer_norm2", "DecoderBlock.we", "encoder_embeddings", EB.ret)

DB == DecoderBlock_forward(args.x_target, caller.encoder_embeddings)

\* a decoder block that looks its ids up in the encoder's embedding table: what
\* C26 rules out
DecoderBlock_we_SharedTable(x_target) ==
  LET labels == Stack(x_target, Len(batch.input_tokens))
      val == Embedding("encoder_block.we", NumTokens, x_target)
  IN  /\ pc = "DecoderBlock.we"
      /\ trace' = Append(trace, pc)
      /\ batch' = IF mode = "fit" THEN Put(batch, "labels", labels) ELSE batch
      /\ args' = Put(args, "x_target", IF mode = "fit" THEN labels[1] ELSE x_target)
      /\ IF val.err # ""
         THEN /\ pc' = "raised"
              /\ err' = val.err
              /\ UNCHANGED locals
         ELSE /\ pc' = "DecoderBlock.pe"
              /\ locals' = Put(locals, "word_embeddings", val)
              /\ UNCHANGED err
      /\ UNCHANGED <<kind, d_model, max_len, pe, mask, version, mode, caller, att, out,
                     loss, device, model_device>>

\* the decoder block's first statement, self.we(x), with x = x_target
DecoderBlock_we(x_target) ==
  LET labels == Stack(x_target, Len(batch.input_tokens))
      val == Embedding("decoder_block.we", NumTokens, x_target)
  IN  /\ pc = "DecoderBlock.we"
      /\ trace' = Append(trace, pc)
      /\ batch' = IF mode = "fit" THEN Put(batch, "labels", labels) ELSE batch
      /\ args' = Put(args, "x_target", IF mode = "fit" THEN labels[1] ELSE x_target)
      /\ IF val.err # ""
         THEN /\ pc' = "raised"
              /\ err' = val.err
              /\ UNCHANGED locals
         ELSE /\ pc' = "DecoderBlock.pe"
              /\ locals' = Put(locals, "word_embeddings", val)
              /\ UNCHANGED err
      /\ UNCHANGED <<kind, d_model, max_len, pe, mask, version, mode, caller, att, out,
                     loss, device, model_device>>

DecoderBlock_pe ==
  /\ Assign("DecoderBlock.pe", "DecoderBlock.decoder_attention",
            "decoder_positional_embeddings", DB.decoder_positional_embeddings)
  /\ UNCHANGED att

DecoderBlock_decoder_attention ==
  /\ Assign("DecoderBlock.decoder_attention", "DecoderBlock.layer_norm1",
            "decoder_attention_values", DB.decoder_attention_values)
  /\ att' = InternalsOf(DB.decoder_attention)

DecoderBlock_layer_norm1 ==
  /\ Assign("DecoderBlock.layer_norm1", "DecoderBlock.encoder_decoder_attention",
            "normalized_decoder_attention_values", DB.normalized_decoder_attention_values)
  /\ UNCHANGED att

DecoderBlock_encoder_decoder_attention ==
  /\ Assign("DecoderBlock.encoder_decoder_attention", "DecoderBlock.layer_norm2",
            "cross_attention_values", DB.cross_attention_values)
  /\ att' = InternalsOf(DB.cross_attention)

DecoderBlock_layer_norm2 ==
  /\ Assign("DecoderBlock.layer_norm2", "DecoderBlock.linear_layer",
            "normalized_cross_attention_values", DB.normalized_cross_attention_values)
  /\ UNCHANGED att

DecoderBlock_linear_layer ==
  /\ Assign("DecoderBlock.linear_layer", "DecoderBlock.layer_norm3", "linear_out",
            DB.linear_out)
  /\ UNCHANGED att

DecoderBlock_layer_norm3 ==
  BlockReturn("DecoderBlock.layer_norm3", "Transformer.linear_layer",
              "decoder_embeddings", DB.ret)

\* the last statement with a softmax over each row of the linear layer's output,
\* as the notebook's workflow text has it: what C13 rules out
SoftmaxRows(x) ==
  IF x.err # "" THEN x ELSE Ok(x.w, [i \in 1..Rows(x) |-> <<"softmax", x.v[i]>>])
Transformer_linear_layer_Softmax ==
  /\ Return("Transformer.linear_layer",
            SoftmaxRows(Linear("linear_layer", d_model, NumTokens,
                               caller.decoder_embeddings)))
  /\ UNCHANGED att

Transformer_linear_layer ==
  /\ Return("Transformer.linear_layer",
            Linear("linear_layer", d_model, NumTokens, caller.decoder_embeddings))
  /\ UNCHANGED att

\* ---------------------------------------------------------------- training
\* nn.CrossEntropyLoss()(outputs, target): one term per row of outputs, scored
\* against the class id of that row; the rows and the ids must be as many, and
\* the ids classes of the outputs
CrossEntropyLoss(outputs, target) ==
  IF Rows(outputs) # Len(target) THEN [err |-> "ValueError", terms |-> <<>>]
  ELSE IF \E i \in 1..Len(target) : target[i] \notin 0..(outputs.w - 1)
  THEN [err |-> "IndexError", terms |-> <<>>]
  ELSE [err |-> "", terms |-> [i \in 1..Len(target) |-> <<"ce", outputs.v[i], target[i]>>]]

\* the statement of training_step after forward returned: the loss of outputs
\* against target, where labels are the labels of the batch
TrainingStep_loss(k, labels, target) ==
  LET val == CrossEntropyLoss(out, target)
  IN  /\ kind = k
      /\ pc = "done"
      /\ mode = "fit"
      /\ loss = NoLoss
      /\ batch' = Put(batch, "labels", labels)
      /\ IF val.err # ""
         THEN /\ pc' = "raised"
              /\ err' = val.err
              /\ UNCHANGED loss
         ELSE /\ loss' = val
              /\ UNCHANGED <<pc, err>>
      /\ UNCHANGED <<kind, d_model, max_len, pe, mask, version, mode, args, locals,
                     caller, att, trace, out, device, model_device>>

\* loss = self.loss(outputs, labels): the labels of the whole batch
EncoderOnlyTransformer_training_step_loss(labels) ==
  TrainingStep_loss("EncoderOnlyTransformer", labels, labels)

\* loss = self.loss(outputs, labels[0])
DecoderOnlyTransformer_training_step_loss(labels) ==
  TrainingStep_loss("DecoderOnlyTransformer", labels, labels[1])

\* a training step that scores row i against the token after position i, the
\* labels shifted left by one and padded: what C28 rules out
Transformer_training_step_loss_Shifted ==
  TrainingStep_loss("Transformer", batch.labels, Tail(batch.labels[1]) \o <<0>>)

\* loss = self.loss_fn(outputs, labels[0]), labels[0] being what forward was
\* given as x_target
Transformer_training_step_loss ==
  TrainingStep_loss("Transformer", batch.labels, batch.labels[1])

\* model.to(device): the notebook moves the model to its device after
\* constructing it and again after trainer.fit
To ==
  /\ pc = "idle"
  /\ kind \in {"EncoderOnlyTransformer", "DecoderOnlyTransformer"}
  /\ model_device # device
  /\ model_device' = device
  /\ UNCHANGED <<kind, d_model, max_len, pe, mask, version, pc, mode, args, locals,
                 caller, att, trace, out, err, batch, loss, device>>

\* an optimizer that steps as soon as forward has returned, before the loss of
\* the step is computed: what C21 rules out
OptimizerStep_BeforeLoss ==
  /\ pc = "done"
  /\ mode = "fit"
  /\ version < MaxUpdates
  /\ version' = version + 1
  /\ pc' = "idle"
  /\ mode' = "eval"
  /\ args' = <<>>
  /\ locals' = <<>>
  /\ caller' = <<>>
  /\ att' = NoAttention
  /\ trace' = <<>>
  /\ out' = NoTensor
  /\ batch' = <<>>
  /\ loss' = NoLoss
  /\ model_device' = "cpu"
  /\ UNCHANGED <<kind, d_model, max_len, pe, mask, err, device>>

\* the trainer's update after training_step returned the loss of a completed
\* forward: backward and Adam's step give every trainable parameter a new value.
\* trainer.fit then returns, which leaves the model on the cpu.
OptimizerStep ==
  /\ pc = "done"
  /\ mode = "fit"
  /\ loss # NoLoss
  /\ version < MaxUpdates
  /\ version' = version + 1
  /\ pc' = "idle"
  /\ mode' = "eval"
  /\ args' = <<>>
  /\ locals' = <<>>
  /\ caller' = <<>>
  /\ att' = NoAttention
  /\ trace' = <<>>
  /\ out' = NoTensor
  /\ batch' = <<>>
  /\ loss' = NoLoss
  /\ model_device' = "cpu"
  /\ UNCHANGED <<kind, d_model, max_len, pe, mask, err, device>>

Next ==
  \/ \E k \in {"PositionEncoding", "EncoderOnlyTransformer", "DecoderOnlyTransformer",
               "Transformer"}, d \in 1..MaxDModel, L \in 1..MaxLenBound :
       \E dev \in DevicesOf(k) : Construct(k, d, L, dev)
  \/ \E d \in 1..MaxDModel : Construct_Attention(d)
  \/ \E n \in 1..MaxSeqLen : Call_PositionEncoding(n)
  \/ PositionEncoding_return
  \/ \E nq \in 1..MaxSeqLen, nk \in 1..MaxSeqLen, m \in Masks : Call_Attention(nq, nk, m)
  \/ Attention_return
  \/ \E ids \in IdsFor(NumTokens, max_len) : Call_EncoderOnlyTransformer(ids)
  \/ \E ids \in Dataset(NumTokens, max_len), B \in 1..MaxBatch :
       TrainingStep_EncoderOnlyTransformer(ids, B)
  \/ \E c \in {0, NumClasses - 1} :
       EncoderOnlyTransformer_training_step_loss(ClassLabels(c, Len(batch.input_tokens)))
  \/ EncoderOnlyTransformer_we
  \/ EncoderOnlyTransformer_pe
  \/ EncoderOnlyTransformer_attention
  \/ EncoderOnlyTransformer_residual
  \/ EncoderOnlyTransformer_cls
  \/ \E ids \in IdsFor(NumTokens, max_len) : Call_DecoderOnlyTransformer(ids)
  \/ \E ids \in Dataset(NumTokens, max_len), B \in 1..MaxBatch :
       TrainingStep_DecoderOnlyTransformer(ids, B)
  \/ \E ids \in Dataset(NumTokens, max_len) :
       DecoderOnlyTransformer_training_step_loss(Stack(ids, Len(batch.input_tokens)))
  \/ DecoderOnlyTransformer_we
  \/ DecoderOnlyTransformer_pe
  \/ DecoderOnlyTransformer_mask
  \/ DecoderOnlyTransformer_attention
  \/ DecoderOnlyTransformer_residual
  \/ DecoderOnlyTransformer_fc
  \/ \E ids \in IdsFor(NumTokensSrc, max_len) : Call_Transformer(ids)
  \/ \E ids \in Dataset(NumTokensSrc, max_len), B \in 1..MaxBatch :
       TrainingStep_Transformer(ids, B)
  \/ Transformer_training_step_loss
  \/ EncoderBlock_we
  \/ EncoderBlock_pe
  \/ EncoderBlock_attention
  \/ EncoderBlock_layer_norm1
  \/ EncoderBlock_linear_layer
  \/ EncoderBlock_layer_norm2
  \/ \E ids \in IF mode = "fit" THEN Dataset(NumTokens, max_len)
                ELSE IdsFor(NumTokens, max_len) : DecoderBlock_we(ids)
  \/ DecoderBlock_pe
  \/ DecoderBlock_decoder_attention
  \/ DecoderBlock_layer_norm1
  \/ DecoderBlock_encoder_decoder_attention
  \/ DecoderBlock_layer_norm2
  \/ DecoderBlock_linear_layer
  \/ DecoderBlock_layer_norm3
  \/ Transformer_linear_layer
  \/ To
  \/ OptimizerStep
  \/ Finish

Spec == Init /\ [][Next]_vars

\* ================================================================== claims
Last(s) == s[Len(s)]
IsPrefix(s, t) == Len(s) <= Len(t) /\ \A i \in 1..Len(s) : s[i] = t[i]
Has(f, name) == name \in DOMAIN f
ValidIds(ids, num) == \A i \in 1..Len(ids) : ids[i] \in 0..(num - 1)

EncoderStages ==
  <<"EncoderBlock.we", "EncoderBlock.pe", "EncoderBlock.attention",
    "EncoderBlock.layer_norm1", "EncoderBlock.linear_layer", "EncoderBlock.layer_norm2">>
DecoderStages ==
  <<"DecoderBlock.we", "DecoderBlock.pe", "DecoderBlock.decoder_attention",
    "DecoderBlock.layer_norm1", "DecoderBlock.encoder_decoder_attention",
    "DecoderBlock.layer_norm2", "DecoderBlock.linear_layer", "DecoderBlock.layer_norm3">>

\* m is the n x n mask that is true exactly above the diagonal
IsStrictUpper(m, n) ==
  /\ Len(m) = n
  /\ \A i \in 1..n : /\ Len(m[i]) = n
                     /\ \A j \in 1..n : m[i][j] <=> (j > i)

\* the decoder block's masked self-attention is the last stage that ran
AtDecoderAttention ==
  /\ kind = "Transformer"
  /\ trace # <<>>
  /\ Last(trace) = "DecoderBlock.decoder_attention"

\* the rows a claim expects, written out from the claim's words
WeRow(name, id) == <<"we", P(name), id>>
LinRow(name, x) == <<"lin", P(name), x>>
LnRow(name, x) == <<"ln", P(name), x>>
AddRow(a, b) == <<"add", a, b>>
\* row of pe added to position i: row i, or the only row when the table has one
PeRowFor(i) == pe[IF Len(pe) = 1 THEN 1 ELSE i]
\* attention of the query row q_in over the rows keys of kv_in, in key order
AttnRow(name, q_in, kv_in, keys) ==
  <<"attn", P(name), d_model, LinRow(name \o ".W_q", q_in),
    [j \in 1..Len(keys) |-> LinRow(name \o ".W_k", kv_in[keys[j]])],
    [j \in 1..Len(keys) |-> LinRow(name \o ".W_v", kv_in[keys[j]])]>>

\* the encoder pipeline of the specification on ids x, with the parameters named
\* prefix.we, prefix.attention, prefix.layer_norm1, prefix.linear_layer,
\* prefix.layer_norm2
EncWe(prefix, x) == [i \in 1..Len(x) |-> WeRow(prefix \o "we", x[i])]
EncPos(prefix, x) == [i \in 1..Len(x) |-> AddRow(EncWe(prefix, x)[i], PeRowFor(i))]
EncAttn(prefix, x) ==
  [i \in 1..Len(x) |->
     AttnRow(prefix \o "attention", EncPos(prefix, x)[i], EncPos(prefix, x), Iota(Len(x)))]
EncNorm1(prefix, x) ==
  [i \in 1..Len(x) |->
     LnRow(prefix \o "layer_norm1", AddRow(EncAttn(prefix, x)[i], EncWe(prefix, x)[i]))]
EncLinear(prefix, x) ==
  [i \in 1..Len(x) |-> LinRow(prefix \o "linear_layer", EncNorm1(prefix, x)[i])]
EncOut(prefix, x) ==
  [i \in 1..Len(x) |->
     LnRow(prefix \o "layer_norm2",
           AddRow(EncLinear(prefix, x)[i], EncNorm1(prefix, x)[i]))]

\* the decoder pipeline of the specification on ids y and the encoder's rows enc
DecWe(y) == [i \in 1..Len(y) |-> WeRow("decoder_block.we", y[i])]
DecPos(y) == [i \in 1..Len(y) |-> AddRow(DecWe(y)[i], PeRowFor(i))]
DecSelf(y) ==
  [i \in 1..Len(y) |->
     AttnRow("decoder_block.decoder_attention", DecPos(y)[i], DecPos(y), Iota(i))]
DecNorm1(y) ==
  [i \in 1..Len(y) |-> LnRow("decoder_block.layer_norm1", AddRow(DecSelf(y)[i], DecWe(y)[i]))]
DecCross(y, enc) ==
  [i \in 1..Len(y) |->
     AttnRow("decoder_block.encoder_decoder_attention", DecNorm1(y)[i], enc, Iota(Len(enc)))]
DecNorm2(y, enc) ==
  [i \in 1..Len(y) |->
     LnRow("decoder_block.layer_norm2", AddRow(DecCross(y, enc)[i], DecNorm1(y)[i]))]
DecLinear(y, enc) ==
  [i \in 1..Len(y) |-> LinRow("decoder_block.linear_layer", DecNorm2(y, enc)[i])]
DecOut(y, enc) ==
  [i \in 1..Len(y) |->
     LnRow("decoder_block.layer_norm3", AddRow(DecLinear(y, enc)[i], DecNorm2(y, enc)[i]))]

\* ---------------------------------------------------------------------- C1
\* C1 (as claimed): for every target length n with 1 <= n <= max_len, the decoder
\* block masks its self-attention with the n x n causal mask of the current call,
\* the masked self-attention does not raise, and a completed call returns n rows.
C1_DecodeMasksWithCausalMaskOfCall ==
  (kind = "Transformer" /\ Has(args, "x_target") /\ Len(args.x_target) <= max_len) =>
     /\ AtDecoderAttention =>
          /\ IsStrictUpper(att.mask, Len(args.x_target))
          /\ pc # "raised"
     /\ pc = "done" => Rows(out) = Len(args.x_target)

\* ---------------------------------------------------------------------- C2
\* C2: causality of the decoder-only model.  Row i of the logits a completed call
\* returned equals row i of the logits of every other input that has the same
\* token ids at positions 0..i, whatever the ids after position i are.
C2_DecoderOnlyCausality ==
  (kind = "DecoderOnlyTransformer" /\ pc = "done") =>
     \A other \in IdsFor(NumTokens, max_len) :
        LET o == DecoderOnlyTransformer_forward(other).fc_layer_out
        IN  o.err = "" =>
              \A i \in 1..Min(Len(other), Len(args.token_ids)) :
                 (\A j \in 1..i : other[j] = args.token_ids[j]) => o.v[i] = out.v[i]

\* a completed call on at least two tokens, and an input that differs from it
\* only after position 0 and has different logits at the last position
C2_Witness ==
  /\ kind = "DecoderOnlyTransformer"
  /\ pc = "done"
  /\ Len(args.token_ids) >= 2
  /\ \E other \in IdsFor(NumTokens, max_len) :
        /\ Len(other) = Len(args.token_ids)
        /\ other[1] = args.token_ids[1]
        /\ other[2] # args.token_ids[2]
        /\ LET o == DecoderOnlyTransformer_forward(other).fc_layer_out
           IN  /\ o.err = ""
               /\ o.v[Len(other)] # out.v[Len(other)]

\* ---------------------------------------------------------------------- C3
\* C3: the causal mask of a sequence of length n is the n x n boolean matrix that
\* is true at (i, j) exactly when j > i: the decoder-only model's mask of the
\* call, and the mask the decoder block registered for max_len.
C3_CausalMaskShape ==
  /\ (kind = "DecoderOnlyTransformer" /\ Has(locals, "mask")) =>
        IsStrictUpper(locals.mask, Len(args.token_ids))
  /\ kind = "Transformer" => IsStrictUpper(mask, max_len)

\* the decoder-only model has built the mask of a call on two or more tokens
C3_Witness ==
  /\ kind = "DecoderOnlyTransformer"
  /\ Has(locals, "mask")
  /\ Len(args.token_ids) >= 2
  /\ locals.mask[1][2]
  /\ ~locals.mask[2][1]

\* ---------------------------------------------------------------------- C4
\* C4 (as claimed): a positional encoder built with max_len, applied to more than
\* max_len rows, raises; a model's forward on more than max_len tokens never
\* gets position-encoded rows.
C4_LongerThanTableRaises ==
  /\ (kind = "PositionEncoding" /\ pc \in {"done", "raised"}
        /\ Rows(args.word_embeddings) > max_len) => pc = "raised"
  /\ (kind \in {"EncoderOnlyTransformer", "DecoderOnlyTransformer"}
        /\ Has(args, "token_ids") /\ Len(args.token_ids) > max_len) =>
        ~Has(locals, "position_encoded")

\* ---------------------------------------------------------------------- C5
\* C5 (as claimed): attention called with a mask whose shape is not
\* (query rows, key rows) raises, and no mask is applied: by broadcasting or
\* otherwise.
C5_MismatchedMaskRaises ==
  /\ (kind = "Attention" /\ pc \in {"done", "raised"} /\ args.mask # None
        /\ <<Len(args.mask), Cols(args.mask)>>
             # <<Rows(args.encodings_for_q), Rows(args.encodings_for_k)>>) =>
        (pc = "raised" /\ att.scaled_sims = <<>>)
  /\ (AtDecoderAttention /\ Len(args.x_target) # max_len) =>
        (pc = "raised" /\ att.scaled_sims = <<>>)

\* ---------------------------------------------------------------------- C6
\* C6: a call given a token id outside its embedding table raises at the
\* embedding lookup, the first stage of the block the ids go to: no later stage
\* runs, nothing is returned, and no step of the failed call changes a weight,
\* the positional table or the registered mask.
FailedAtEmbedding(stage) ==
  /\ pc = "raised"
  /\ err = "IndexError"
  /\ Last(trace) = stage
  /\ Cardinality({i \in 1..Len(trace) : trace[i] = stage}) = 1
  /\ locals = <<>>
  /\ out = NoTensor

C7_EncoderStagesInOrder ==
  kind = "Transformer" =>
    /\ IsPrefix(trace, EncoderStages) \/ IsPrefix(EncoderStages, trace)
    /\ (Has(args, "x_src") /\ ~Has(caller, "encoder_embeddings")) =>
         LET x == args.x_src
         IN  /\ Has(locals, "word_embeddings") =>
                  locals.word_embeddings.v = EncWe("encoder_block.", x)
             /\ Has(locals, "position_encoded") =>
                  locals.position_encoded.v = EncPos("encoder_block.", x)
             /\ Has(locals, "attention_values") =>
                  /\ att.mask = None
                  /\ locals.attention_values.v = EncAttn("encoder_block.", x)
             /\ Has(locals, "normalized_attention_values") =>
                  locals.normalized_attention_values.v = EncNorm1("encoder_block.", x)
             /\ Has(locals, "linear_out") =>
                  locals.linear_out.v = EncLinear("encoder_block.", x)
    /\ Has(caller, "encoder_embeddings") =>
         /\ IsPrefix(EncoderStages, trace)
         /\ caller.encoder_embeddings.v = EncOut("encoder_block.", args.x_src)

\* the encoder block has returned its rows for a source of two or more tokens
C7_Witness ==
  /\ kind = "Transformer"
  /\ Has(caller, "encoder_embeddings")
  /\ Len(args.x_src) >= 2
  /\ Rows(caller.encoder_embeddings) = Len(args.x_src)
  /\ trace = EncoderStages

\* ---------------------------------------------------------------------- C8
\* C8: on a target of at most max_len tokens the decoder block runs, once each
\* and in this order: embedding lookup, positional encoding, causally masked
\* self-attention, layer norm 1 of (that + word embeddings), cross-attention with
\* queries from layer norm 1 and keys and values the encoder embeddings and no
\* mask, layer norm 2 of (that + layer norm 1's rows), the linear layer, layer
\* norm 3 of (linear output + layer norm 2's rows), which it returns.
DecoderTrace == SubSeq(trace, Len(EncoderStages) + 1,
                       Min(Len(trace), Len(EncoderStages) + Len(DecoderStages)))

At(stage) == {i \in 1..Len(trace) : trace[i] = stage}

C10_ClassifierIsAttentionPlusResidual ==
  (kind = "EncoderOnlyTransformer" /\ pc = "done") =>
    LET x == args.token_ids
        pos == EncPos("", x)
    IN  /\ out.w = NumClasses
        /\ out.v = <<LinRow("cls", AddRow(pos[1], AttnRow("attention", pos[1], pos,
                                                       Iota(Len(x)))))>>

\* C10 (as claimed): the logits are the classification layer applied to row 0 of
\* what the encoder pipeline (attention, norm 1 with the word embeddings, linear,
\* norm 2) gives for the same token ids.
C10_ClassifierIsEncoderPipeline ==
  (kind = "EncoderOnlyTransformer" /\ pc = "done") =>
    out.v = <<LinRow("cls", EncOut("", args.token_ids)[1])>>

\* the classifier has returned its logits for two or more tokens
C10_Witness ==
  /\ kind = "EncoderOnlyTransformer"
  /\ pc = "done"
  /\ Len(args.token_ids) >= 2
  /\ Rows(out) = 1

\* --------------------------------------------------------------------- C11
\* the decoder-only model's rows: position-encoded rows, and their causally masked
\* self-attention (row i attends over rows 0..i)
DoPos(x) == EncPos("", x)
DoSelf(x) ==
  [i \in 1..Len(x) |-> AttnRow("attention", DoPos(x)[i], DoPos(x), Iota(i))]

\* C11 (amended): the decoder-only model's logits are the output projection
\* applied, row by row, to position_encoded + masked self-attention of the
\* position-encoded rows: n rows of NumTokens logits, with no cross-attention,
\* no layer norm and no feed-forward layer, the residual being the
\* position-encoded rows.
C11_DecoderOnlyIsAttentionPlusResidual ==
  (kind = "DecoderOnlyTransformer" /\ pc = "done") =>
    LET x == args.token_ids
    IN  /\ out.w = NumTokens
        /\ out.v = [i \in 1..Len(x) |-> LinRow("fc", AddRow(DoPos(x)[i], DoSelf(x)[i]))]

\* C11 (as claimed): the logits are the output projection of the decoder
\* pipeline's last residual-norm: a norm of (feed-forward output + the rows of
\* the residual-norm before it).
C11_DecoderOnlyIsDecoderPipeline ==
  (kind = "DecoderOnlyTransformer" /\ pc = "done") =>
    \A i \in 1..Rows(out) :
       LET e == out.v[i][3]
       IN  /\ e[1] = "ln"
           /\ e[3][1] = "add"
           /\ e[3][2][1] = "lin"
           /\ e[3][3][1] = "ln"

\* the decoder-only model has returned its logits for two or more tokens
C11_Witness ==
  /\ kind = "DecoderOnlyTransformer"
  /\ pc = "done"
  /\ Len(args.token_ids) >= 2
  /\ Rows(out) = Len(args.token_ids)

\* --------------------------------------------------------------------- C12
\* the stages of a whole transducer call, in order
TransformerStages == EncoderStages \o DecoderStages \o <<"Transformer.linear_layer">>

\* C12 (as claimed): for valid source ids of length 1..max_len and valid target
\* ids of length 1..max_len, of equal or different lengths, the transducer's call
\* does not raise; the encoder runs before the decoder; and the call returns
\* target_len rows of NumTokens logits, the projection of the decoder's rows over
\* the encoder's rows for the source of the same call.
C12_TransducerReturnsTargetRows ==
  (kind = "Transformer" /\ Has(args, "x_target")
     /\ ValidIds(args.x_src, NumTokensSrc) /\ ValidIds(args.x_target, NumTokens)
     /\ Len(args.x_src) <= max_len /\ Len(args.x_target) <= max_len) =>
    LET x == args.x_src
        y == args.x_target
    IN  /\ pc # "raised"
        /\ IsPrefix(trace, TransformerStages)
        /\ pc = "done" =>
             /\ trace = TransformerStages
             /\ out.w = NumTokens
             /\ out.v = [i \in 1..Len(y) |->
                           LinRow("linear_layer", DecOut(y, EncOut("encoder_block.", x))[i])]

HasShape(M, r, c) == Len(M) = r /\ \A i \in 1..r : Len(M[i]) = c

\* C14: attention over nq >= 1 query rows and nk >= 1 key and value rows, nk
\* equal to nq or not, called without a mask or with an nq x nk mask, returns nq
\* rows of d_model features and weighs with an nq x nk matrix; so does the decoder
\* block's cross-attention of the target's rows over the encoder's rows.
C14_AttentionShapes ==
  /\ (kind = "Attention" /\ pc \in {"done", "raised"}
        /\ (args.mask = None
              \/ HasShape(args.mask, Rows(args.encodings_for_q),
                          Rows(args.encodings_for_k)))) =>
        /\ pc = "done"
        /\ Rows(out) = Rows(args.encodings_for_q)
        /\ out.w = d_model
        /\ HasShape(att.attention_percents, Rows(args.encodings_for_q),
                    Rows(args.encodings_for_k))
  /\ (kind = "Transformer" /\ trace # <<>>
        /\ Last(trace) = "DecoderBlock.encoder_decoder_attention") =>
        /\ pc # "raised"
        /\ Rows(locals.cross_attention_values) = Len(args.x_target)
        /\ locals.cross_attention_values.w = d_model
        /\ HasShape(att.attention_percents, Len(args.x_target),
                    Rows(caller.encoder_embeddings))

\* attention has returned for two query rows and one key row, or the other way
\* round, without a mask
C14_Witness ==
  /\ kind = "Attention"
  /\ pc = "done"
  /\ args.mask = None
  /\ Rows(args.encodings_for_q) # Rows(args.encodings_for_k)
  /\ Rows(out) = Rows(args.encodings_for_q)

\* --------------------------------------------------------------------- C15
\* the columns of a row of weights that hold a non-zero weight
NonZero(row) == {c \in 1..Len(row) : row[c] # ZERO}

\* C15: in every row of attention weights, whatever the mask (none, causal, or
\* one hiding every key), each weight is either 0 or exp(score) over the sum of
\* exp(score) of exactly the columns with a non-zero weight, and some weight is
\* non-zero: the weights are non-negative and sum to 1.
C15_WeightsSumToOne ==
  \A r \in 1..Len(att.attention_percents) :
     LET row == att.attention_percents[r]
     IN  /\ NonZero(row) # {}
         /\ \A c \in NonZero(row) : row[c].den = NonZero(row)

\* the decoder-only model has weighed two or more tokens under its causal mask:
\* the first row gives the second key the weight 0, the second row none
C15_Witness ==
  /\ kind = "DecoderOnlyTransformer"
  /\ Len(att.attention_percents) >= 2
  /\ att.attention_percents[1][2] = ZERO
  /\ NonZero(att.attention_percents[2]) = {1, 2}

\* --------------------------------------------------------------------- C16
\* the nq x nk scores with the sentinel exactly where the nq x nk mask m is true
\* (nowhere when m is None) and the score of query i against key j elsewhere
ScoresUnder(m, nq, nk) ==
  [i \in 1..nq |-> [j \in 1..nk |-> IF m # None /\ m[i][j] THEN NEG ELSE <<i, j>>]]

\* C16: the scores attention takes the softmax of are the scaled scores with the
\* sentinel -1e9 exactly at the (i, j) where mask[i, j] is true, every other score
\* unchanged; without a mask no score is changed.  Stated for masks of the
\* scores' shape: a direct call, the decoder-only model's masked self-attention,
\* the classifier's unmasked self-attention and the decoder block's masked
\* self-attention on max_len tokens, wherever masked_fill returned scores.
C16_MaskingFrame ==
  /\ (kind = "Attention" /\ pc \in {"done", "raised"}
        /\ (args.mask = None
              \/ HasShape(args.mask, Rows(args.encodings_for_q),
                          Rows(args.encodings_for_k)))) =>
        att.scaled_sims = ScoresUnder(args.mask, Rows(args.encodings_for_q),
                                      Rows(args.encodings_for_k))
  /\ (kind = "DecoderOnlyTransformer" /\ trace # <<>>
        /\ Last(trace) = "DecoderOnlyTransformer.attention" /\ pc # "raised") =>
        att.scaled_sims = ScoresUnder(locals.mask, Len(args.token_ids),
                                      Len(args.token_ids))
  /\ (kind = "EncoderOnlyTransformer" /\ trace # <<>>
        /\ Last(trace) = "EncoderOnlyTransformer.attention") =>
        att.scaled_sims = ScoresUnder(None, Len(args.token_ids), Len(args.token_ids))
  /\ (AtDecoderAttention /\ Len(args.x_target) = max_len) =>
        att.scaled_sims = ScoresUnder(mask, max_len, max_len)

\* attention has run with a 2 x 2 mask that hides one score and shows three
C16_Witness ==
  /\ kind = "Attention"
  /\ pc = "done"
  /\ args.mask = <<<<FALSE, TRUE>>, <<FALSE, FALSE>>>>
  /\ att.scaled_sims[1][2] = NEG
  /\ att.scaled_sims[2][1] = <<2, 1>>

\* --------------------------------------------------------------------- C17
\* the table entry the formula gives at position pos and column col (from 0):
\* sin(pos / 10000^(2i/d)) at col = 2i, cos(pos / 10000^(2i/d)) at col = 2i + 1,
\* with sin 0 = 0 and cos 0 = 1
TableEntry(pos, col, d) ==
  IF col % 2 = 0
  THEN IF pos = 0 THEN <<"num", 0, 0, 0>> ELSE <<"sin", pos, col, d>>
  ELSE IF pos = 0 THEN <<"num", 1, 0, 0>> ELSE <<"cos", pos, col - 1, d>>

\* C17 (as claimed): for every d_model >= 1 and max_len >= 1 the construction of
\* the positional encoder succeeds, and the table has max_len rows of d_model
\* entries, each the entry of the formula.
C17_TableForEveryDModel ==
  /\ pc # "failed"
  /\ kind \in {"PositionEncoding", "EncoderOnlyTransformer", "DecoderOnlyTransformer",
               "Transformer"} =>
       /\ HasShape(pe, max_len, d_model)
       /\ \A r \in 1..max_len : \A c \in 1..d_model :
             pe[r][c] = TableEntry(r - 1, c - 1, d_model)

\* --------------------------------------------------------------------- C18
\* C18: on seq_len <= max_len rows the positional encoder returns seq_len rows,
\* row r being input row r plus table row r, counted from the table's first row
\* in every call, directly or inside the classifier and the decoder-only model;
\* and no call changes the table, so a call's result depends on its input only.
C18_EncodeAddsTableRows ==
  /\ [](/\ (kind = "PositionEncoding" /\ pc \in {"done", "raised"}
              /\ Rows(args.word_embeddings) <= max_len) =>
              /\ pc = "done"
              /\ out.w = d_model
              /\ out.v = [r \in 1..Rows(args.word_embeddings) |->
                            AddRow(args.word_embeddings.v[r], pe[r])]
        /\ (kind \in {"EncoderOnlyTransformer", "DecoderOnlyTransformer"}
              /\ Has(locals, "position_encoded")
              /\ Len(args.token_ids) <= max_len) =>
              locals.position_encoded.v =
                [r \in 1..Len(args.token_ids) |->
                   AddRow(locals.word_embeddings.v[r], pe[r])])
  /\ [][pc # "new" => pe' = pe]_vars

\* the positional encoder has returned for one row, fewer than its table has
C18_Witness ==
  /\ kind = "PositionEncoding"
  /\ pc = "done"
  /\ Rows(out) = 1
  /\ max_len >= 2

\* --------------------------------------------------------------------- C19
\* C19: no step of a forward call, whether the call completes or raises,
\* changes the weights, the positional table, the causal-mask buffer or the
\* sizes fixed at construction; the weights change only in the optimizer's
\* update that follows a completed training step.
C19_ForwardChangesNoParameters ==
  [][/\ version' # version => (pc = "done" /\ mode = "fit" /\ pc' = "idle")
     /\ pc # "new" => /\ pe' = pe
                      /\ mask' = mask
                      /\ d_model' = d_model
                      /\ max_len' = max_len]_vars

\* a forward call of the encoder-decoder model has raised after an update of
\* the weights, which are still those the update left
C19_Witness ==
  /\ kind = "Transformer"
  /\ pc = "raised"
  /\ version = MaxUpdates

\* --------------------------------------------------------------------- C20
\* what a call that computed ret leaves in pc, out and err
C20_Result(ret) == IF ret.err # "" THEN <<"raised", NoTensor, ret.err>>
                   ELSE <<"done", ret, "">>

\* what the forward call of the state has left: a result, also when the loss
\* computed from it raised afterwards, or the exception forward raised
C20_Observed == IF out # NoTensor THEN <<"done", out, "">> ELSE <<pc, out, err>>

C21_UpdatesBetweenSteps ==
  [][version' # version =>
       /\ mode = "fit"
       /\ pc = "done"
       /\ out # NoTensor
       /\ loss # NoLoss
       /\ pc' = "idle"
       /\ DOMAIN batch' = {}
       /\ loss' = NoLoss]_vars

\* the decoder-only model is between steps after an update of its weights
C21_Witness ==
  /\ kind = "DecoderOnlyTransformer"
  /\ pc = "idle"
  /\ version >= 1

\* --------------------------------------------------------------------- C22
\* the forward calls the training step of the state has made: each starts at
\* the model's first stage
C22_Forwards ==
  Cardinality({i \in 1..Len(trace) :
                 trace[i] \in {"EncoderOnlyTransformer.we", "DecoderOnlyTransformer.we",
                               "EncoderBlock.we"}})

\* the labels of example b of the batch: one class id for the classifier, a row
\* of token ids for the other two models
C22_LabelsOf(b) ==
  IF kind = "EncoderOnlyTransformer" THEN <<batch.labels[b]>> ELSE batch.labels[b]

\* C22: when training_step has computed its loss from a batch of B >= 1
\* examples, forward has been called B times, once per example, and the loss has
\* the terms of every example: those of example 1, then those of example 2, ...
C22_EveryExampleForwarded ==
  (mode = "fit" /\ pc = "done" /\ loss # NoLoss) =>
    LET B == Len(batch.input_tokens)
        scored(b) == {i \in 1..Len(loss.terms) :
                        \E j \in 1..Len(C22_LabelsOf(b)) :
                          /\ i = (b - 1) * Len(C22_LabelsOf(1)) + j
                          /\ loss.terms[i][3] = C22_LabelsOf(b)[j]}
    IN  /\ C22_Forwards = B
        /\ \A b \in 1..B : Cardinality(scored(b)) = Len(C22_LabelsOf(b))

\* --------------------------------------------------------------------- C23
\* C23: a forward call of the classifier on 1..max_len ids of the vocabulary
\* never raises, and what it returns is one row of NumClasses = 2 raw logits,
\* the output of the linear layer cls with no softmax over it, whatever the
\* length of the input.
C23_OneLogitVector ==
  (kind = "EncoderOnlyTransformer" /\ pc \in {"done", "raised"}
     /\ Len(args.token_ids) <= max_len /\ ValidIds(args.token_ids, NumTokens)) =>
    /\ out.err = ""
    /\ Rows(out) = 1
    /\ out.w = NumClasses
    /\ out.v[1][1] = "lin"
    /\ out.v[1][2] = P("cls")
    /\ pc = "raised" => (mode = "fit" /\ err = "ValueError")

\* the classifier has answered a direct call on max_len >= 2 ids
C23_Witness ==
  /\ kind = "EncoderOnlyTransformer"
  /\ pc = "done"
  /\ mode = "eval"
  /\ max_len >= 2
  /\ Len(args.token_ids) = max_len

\* --------------------------------------------------------------------- C24
\* C24: a forward call of the decoder-only model on n = 1..max_len ids of the
\* vocabulary returns n rows of NumTokens logits, row i being the logits of
\* input position i: the output projection of that position's residual.
C24_OneLogitRowPerPosition ==
  (kind = "DecoderOnlyTransformer" /\ pc \in {"done", "raised"}
     /\ Len(args.token_ids) <= max_len /\ ValidIds(args.token_ids, NumTokens)) =>
    LET x == args.token_ids
    IN  /\ out.err = ""
        /\ Rows(out) = Len(x)
        /\ out.w = NumTokens
        /\ \A i \in 1..Len(x) :
             out.v[i] = LinRow("fc", AddRow(DoPos(x)[i], DoSelf(x)[i]))

\* --------------------------------------------------------------------- C25
\* C25: wherever attention has scaled its scores (self-attention of the
\* classifier, the decoder-only model and the encoder block, masked
\* self-attention and cross-attention of the decoder block, a direct call) the
\* width k.size(1) whose square root it divided by is the d_model of the block,
\* and the rows it returns are weighted under that scale.
C25_ScaleIsDModel ==
  /\ att.attention_percents # <<>> => att.scale = d_model
  /\ (kind = "Attention" /\ pc = "done") =>
       \A i \in 1..Rows(out) : out.v[i][1] = "attn" /\ out.v[i][3] = d_model
  /\ (kind = "Transformer" /\ Has(locals, "cross_attention_values")) =>
       \A i \in 1..Rows(locals.cross_attention_values) :
          /\ locals.cross_attention_values.v[i][1] = "attn"
          /\ locals.cross_attention_values.v[i][3] = d_model

\* the decoder block's cross-attention has run with more keys than d_model
C25_Witness ==
  /\ kind = "Transformer"
  /\ trace # <<>>
  /\ Last(trace) = "DecoderBlock.encoder_decoder_attention"
  /\ pc # "raised"
  /\ Len(args.x_src) > d_model
  /\ att.scale = d_model

\* --------------------------------------------------------------------- C26
\* the names of the parameters a row was computed with
RECURSIVE ParamsOf(_)
ParamsOf(t) ==
  IF t[1] = "we" THEN {t[2][1]}
  ELSE IF t[1] \in {"lin", "ln"} THEN {t[2][1]} \cup ParamsOf(t[3])
  ELSE IF t[1] = "add"
  THEN ParamsOf(t[2]) \cup (IF t[2][1] = "we" THEN {} ELSE ParamsOf(t[3]))
  ELSE IF t[1] = "attn"
  THEN {t[2][1]} \cup (IF t[4] = <<>> THEN {} ELSE ParamsOf(t[4]))
         \cup UNION {ParamsOf(t[5][j]) : j \in 1..Len(t[5])}
         \cup UNION {ParamsOf(t[6][j]) : j \in 1..Len(t[6])}
  ELSE {}

ParamsOfRows(x) == UNION {ParamsOf(x.v[i]) : i \in 1..Rows(x)}

\* the parameters an attention layer owns
AttentionParams(name) == {name, name \o ".W_q", name \o ".W_k", name \o ".W_v"}

\* the parameters the encoder block owns, and those the decoder block owns
EncoderParams ==
  {"encoder_block.we", "encoder_block.layer_norm1", "encoder_block.linear_layer",
   "encoder_block.layer_norm2"} \cup AttentionParams("encoder_block.attention")
DecoderParams ==
  {"decoder_block.we", "decoder_block.layer_norm1", "decoder_block.layer_norm2",
   "decoder_block.linear_layer", "decoder_block.layer_norm3"}
    \cup AttentionParams("decoder_block.decoder_attention")
    \cup AttentionParams("decoder_block.encoder_decoder_attention")

\* C26: in the transducer the encoder's rows are computed with the encoder's
\* parameters alone, source ids in the encoder's table; target ids are looked up
\* in the decoder's table alone; masked self-attention uses its own projections
\* and none of the cross-attention's; cross-attention projects with its own
\* W_q, W_k and W_v, its keys and values being encoder rows; and the logits use
\* the encoder's, the decoder's and the output projection's parameters only.
C26_NoParameterShared ==
  kind = "Transformer" =>
    /\ Has(caller, "encoder_embeddings") =>
         ParamsOfRows(caller.encoder_embeddings) = EncoderParams
    /\ (Has(caller, "encoder_embeddings") /\ Has(locals, "word_embeddings")) =>
         locals.word_embeddings.v =
           [i \in 1..Len(args.x_target) |-> WeRow("decoder_block.we", args.x_target[i])]
    /\ Has(locals, "decoder_attention_values") =>
         ParamsOfRows(locals.decoder_attention_values)
           \subseteq {"decoder_block.we"} \cup AttentionParams("decoder_block.decoder_attention")
    /\ Has(locals, "cross_attention_values") =>
         \A i \in 1..Rows(locals.cross_attention_values) :
            LET r == locals.cross_attention_values.v[i]
            IN  /\ r[2][1] = "decoder_block.encoder_decoder_attention"
                /\ r[4][2][1] = "decoder_block.encoder_decoder_attention.W_q"
                /\ ParamsOf(r[4][3]) \subseteq DecoderParams
                /\ \A j \in 1..Len(r[5]) :
                     /\ r[5][j][2][1] = "decoder_block.encoder_decoder_attention.W_k"
                     /\ ParamsOf(r[5][j][3]) = EncoderParams
                /\ \A j \in 1..Len(r[6]) :
                     /\ r[6][j][2][1] = "decoder_block.encoder_decoder_attention.W_v"
                     /\ ParamsOf(r[6][j][3]) = EncoderParams
    /\ pc = "done" =>
         ParamsOfRows(out) = EncoderParams \cup DecoderParams \cup {"linear_layer"}

\* the decoder block's cross-attention has returned rows of width two or more
C26_Witness ==
  /\ kind = "Transformer"
  /\ pc = "DecoderBlock.layer_norm2"
  /\ Has(locals, "cross_attention_values")
  /\ d_model >= 2

\* --------------------------------------------------------------------- C27
\* C27: when the transducer has returned logits for a source and a target, the
\* logits at target position i are those it returns, for the same source, for
\* any other target that agrees with this one on positions 0..i.
C27_TransducerCausality ==
  (kind = "Transformer" /\ pc = "done") =>
     \A other \in IdsFor(NumTokens, max_len) :
        LET o == Transformer_forward(args.x_src, other).ret
        IN  o.err = "" =>
              \A i \in 1..Min(Len(other), Len(args.x_target)) :
                 (\A j \in 1..i : other[j] = args.x_target[j]) => o.v[i] = out.v[i]

\* --------------------------------------------------------------------- C28
\* C28: in the transducer's training step the sequence forward was given as
\* x_target is labels[0], the sequence the loss scores against, unshifted: the
\* loss has one term per target position, the term of position i scoring logit
\* row i against the decoder's own input token at position i, a position the
\* causal mask leaves visible to position i.
C28_LossTargetIsDecoderInput ==
  (kind = "Transformer" /\ mode = "fit") =>
    /\ Has(args, "x_target") => args.x_target = batch.labels[1]
    /\ loss # NoLoss =>
         /\ Len(loss.terms) = Len(args.x_target)
         /\ \A i \in 1..Len(args.x_target) :
              /\ loss.terms[i] = <<"ce", out.v[i], args.x_target[i]>>
              /\ ~mask[i][i]

\* the transducer's training step has computed its loss on a target of two or
\* more tokens that are not all the same
C28_Witness ==
  /\ kind = "Transformer"
  /\ mode = "fit"
  /\ loss # NoLoss
  /\ Len(args.x_target) >= 2
  /\ args.x_target[1] # args.x_target[2]

\* --------------------------------------------------------------------- C29
\* C29: every causal mask a decoder builds, the decoder block's buffer and the
\* mask the decoder-only model builds in each call, leaves the diagonal entry
\* (i, i) of every row i unmasked; and the scores masked self-attention takes
\* its softmax of have, in every row, a score that is not the sentinel.
C29_NoFullyMaskedRow ==
  /\ kind = "Transformer" => \A i \in 1..Len(mask) : ~mask[i][i]
  /\ (kind = "DecoderOnlyTransformer" /\ Has(locals, "mask")) =>
       /\ Len(locals.mask) = Len(args.token_ids)
       /\ \A i \in 1..Len(locals.mask) : ~locals.mask[i][i]
  /\ ((AtDecoderAttention
         \/ (kind = "DecoderOnlyTransformer" /\ trace # <<>>
               /\ Last(trace) = "DecoderOnlyTransformer.attention"))) =>
       \A r \in 1..Len(att.scaled_sims) :
          \E c \in 1..Len(att.scaled_sims[r]) : att.scaled_sims[r][c] # NEG

\* the decoder-only model's masked self-attention has returned for two or more
\* tokens: the first row keeps its own score and has the sentinel after it
C29_Witness ==
  /\ kind = "DecoderOnlyTransformer"
  /\ trace # <<>>
  /\ Last(trace) = "DecoderOnlyTransformer.attention"
  /\ pc # "raised"
  /\ Len(att.scaled_sims) >= 2
  /\ att.scaled_sims[1][1] # NEG
  /\ att.scaled_sims[1][2] = NEG

\* --------------------------------------------------------------------- C30
\* C30: in the decoder-only model the mask goes to the notebook's global device,
\* not to where the scores are: when the model is on that device the masked
\* self-attention returns scores under the mask of the call, and when it is on
\* another device the call raises in masked_fill with no scores computed.  The
\* classifier's unmasked self-attention never reads the global device: it
\* returns, on either device, what attention without a device argument returns.
C30_MaskGoesToGlobalDevice ==
  /\ (kind = "DecoderOnlyTransformer" /\ trace # <<>>
        /\ Last(trace) = "DecoderOnlyTransformer.attention") =>
       IF model_device = device
       THEN /\ pc # "raised"
            /\ att.mask = locals.mask
            /\ att.scaled_sims # <<>>
       ELSE /\ pc = "raised"
            /\ err = "RuntimeError"
            /\ att.scaled_sims = <<>>
            /\ ~Has(locals, "self_attention_values")
  /\ (kind = "EncoderOnlyTransformer" /\ trace # <<>>
        /\ Last(trace) = "EncoderOnlyTransformer.attention") =>
       /\ pc # "raised"
       /\ att.mask = None
       /\ locals.self_attention_values =
            TensorOf(Attention_forward("attention", locals.position_encoded,
                                       locals.position_encoded,
                                       locals.position_encoded, None))

\* the decoder-only model, on the cpu while the global device is another one,
\* has raised in its masked self-attention
C30_Witness ==
  /\ kind = "DecoderOnlyTransformer"
  /\ model_device # device
  /\ trace # <<>>
  /\ Last(trace) = "DecoderOnlyTransformer.attention"
  /\ pc = "raised"

====
